---- MODULE Spec2Model ----
(***************************************************************************)
(* Consistency checker of the ride-share location system: the Step         *)
(* Functions workflow of ConsistencyChecker (CompareRegions, AnalyzeDrift, *)
(* DriftDetected?, CorrectDrift, Success), the EventBridge rule that       *)
(* starts it, and the drift computation calculateDrift.                    *)
(*                                                                         *)
(* Time is counted in seconds.  Positions are points on one meridian,      *)
(* given in metres from a reference point, so that the great-circle        *)
(* distance of two positions is the absolute difference.                   *)
(***************************************************************************)
EXTENDS Integers, Sequences, FiniteSets, TLC

(* ------------------------------ bounds -------------------------------- *)
NumRegions == 3
NumDrivers == 2
MaxExecutions == 2

(* ------------------------- program constants -------------------------- *)
RatePeriodSeconds == 60
CheckRegionTimeoutSeconds == 5
LambdaTimeoutSeconds == 60
CorrectDriftTimeoutSeconds == 10
DriftThresholdMeters == 100

Regions == 1..NumRegions
Drivers == 1..NumDrivers
Executions == 1..MaxExecutions

Positions == {0, 60, 120, 220}
CachePositions == {0, 220}
CanonicalPos == CHOOSE p \in CachePositions : \A q \in CachePositions : p <= q
DriftedPos == CHOOSE p \in CachePositions : \A q \in CachePositions : p >= q
WorkflowDrivers == {1}
SnapshotAges == {60, 120, 180}

VARIABLES caches, timer, execs, input, result, table, propagation, stream,
          updater, response

vars == <<caches, timer, execs, input, result, table, propagation, stream,
         updater, response>>

(* ------------------------------ helpers ------------------------------- *)
Max0(S) == IF S = {} THEN 0 ELSE CHOOSE m \in S : \A x \in S : x <= m

RECURSIVE SumOver(_, _)
SumOver(S, f) ==
  IF S = {} THEN 0
  ELSE LET x == CHOOSE y \in S : TRUE IN f[x] + SumOver(S \ {x}, f)

(* --------------------------- drift analysis --------------------------- *)
haversineDistance(a, b) == IF a >= b THEN a - b ELSE b - a

\* The drivers sampled in this run: every region state holds the same ones.
sampleDrivers(states) == IF Len(states) = 0 THEN {} ELSE DOMAIN states[1].samples

\* The pairs (driver, i) the loops of calculateDrift visit.
ComparedPairs(states) == sampleDrivers(states) \X (1..(Len(states) - 1))

PairDistance(states, p) ==
  haversineDistance(states[p[2]].samples[p[1]], states[p[2] + 1].samples[p[1]])

isDriftLessThan(distance) == distance < DriftThresholdMeters

isDrift(distance) == distance > DriftThresholdMeters

DriftPairs(states) ==
  {p \in ComparedPairs(states) : isDrift(PairDistance(states, p))}

calculateDrift(states) ==
  LET pairs == DriftPairs(states)
      dist == [p \in pairs |-> PairDistance(states, p)]
      totalDrift == SumOver(pairs, dist)
      driftCount == Cardinality(pairs)
      n == Cardinality(sampleDrivers(states))
  IN  [avgDrift |-> totalDrift \div n,
       maxDrift |-> Max0({dist[p] : p \in pairs}),
       driftCount |-> driftCount,
       driftPercentage |-> (driftCount * 100) \div n]

\* Regions of the pairs that calculateDrift found more than 100 m apart.
affectedRegions(states) ==
  UNION {{states[p[2]].region, states[p[2] + 1].region} : p \in DriftPairs(states)}

classifySeverity(driftCount, affected) ==
  IF driftCount = 0 THEN "None"
  ELSE IF Cardinality(affected) <= 2 THEN "Minor"
  ELSE "Major"

UsableSnapshots(snapshots) == SelectSeq(snapshots, LAMBDA s : s.status = "ok")

EmptyReport ==
  [present |-> FALSE, sampleSize |-> 0, driftedDriverCount |-> 0,
   driftPercentage |-> 0, maxDriftMeters |-> 0, severity |-> "None",
   affectedRegions |-> {}, zeroConfidence |-> FALSE, unavailable |-> {}]

analyze(snapshots) ==
  LET usable == UsableSnapshots(snapshots)
      flagged == {snapshots[i].region : i \in {j \in 1..Len(snapshots) :
                                               snapshots[j].status # "ok"}}
  IN  IF Len(usable) < 2
      THEN [EmptyReport EXCEPT !.present = TRUE,
                               !.sampleSize = Cardinality(sampleDrivers(usable)),
                               !.zeroConfidence = TRUE, !.unavailable = flagged]
      ELSE LET d == calculateDrift(usable)
               affected == affectedRegions(usable)
           IN  [present |-> TRUE,
                sampleSize |-> Cardinality(sampleDrivers(usable)),
                driftedDriverCount |-> d.driftCount,
                driftPercentage |-> d.driftPercentage,
                maxDriftMeters |-> d.maxDrift,
                severity |-> classifySeverity(d.driftCount, affected),
                affectedRegions |-> affected,
                zeroConfidence |-> FALSE, unavailable |-> flagged]

driftDetected(report) == report.severity = "Major"

(* --------------------------- region snapshots ------------------------- *)
PendingResult(r) == [region |-> r, status |-> "pending", samples |-> <<>>]
FetchErrorSnapshot(r) == [region |-> r, status |-> "fetchError", samples |-> <<>>]
OkSnapshot(r, samples) == [region |-> r, status |-> "ok", samples |-> samples]

\* The samples of one region: the first driver anywhere in Positions, the
\* other drivers at one of the CachePositions.
SampleInputs ==
  {f \in [Drivers -> Positions] : \A d \in Drivers \ {1} : f[d] \in CachePositions}

SnapshotInputs ==
  {[r \in Regions |-> IF f[r] = <<>> THEN FetchErrorSnapshot(r)
                                      ELSE OkSnapshot(r, f[r])] :
     f \in [Regions -> SampleInputs \cup {<<>>}]}

(* ----------------------------- corrector ------------------------------ *)
canonicalState == [d \in WorkflowDrivers |-> CanonicalPos]

isStale(ageSeconds) == ageSeconds > 2 * RatePeriodSeconds

SnapshotUnavailable(found, ageSeconds) == ~found \/ isStale(ageSeconds)

EmptyPlan == [present |-> FALSE, targetRegions |-> {}, drivers |-> {}, records |-> <<>>]

NoSample == [position |-> CanonicalPos, timestamp |-> 0]

\* The input of CorrectDrift: the driftRegions of the detector's payload.
driftRegionsAll(report) == Regions

driftRegions(report) == report.affectedRegions

buildPlanSampled(report, canonical) ==
  [present |-> TRUE, targetRegions |-> driftRegions(report),
   drivers |-> Drivers,
   records |-> [d \in Drivers |->
                  IF d \in DOMAIN canonical THEN canonical[d] ELSE NoSample]]

\* The report does not attribute drift to drivers: every driver of the
\* canonical snapshot is republished, with its canonical sample.
buildPlan(report, canonical) ==
  [present |-> TRUE, targetRegions |-> driftRegions(report),
   drivers |-> DOMAIN canonical,
   records |-> [d \in DOMAIN canonical |-> canonical[d]]]

Publish(c, plan, d, canonical) ==
  [r \in Regions |->
     IF r \in plan.targetRegions THEN [c[r] EXCEPT ![d] = canonical[d]] ELSE c[r]]

(* ----------------------------- write path ----------------------------- *)
\* The handler of location-processor: the conditional write to the table.
Timestamps == {1, 2, 3}

NoItem == [present |-> FALSE, timestamp |-> 0, position |-> 0, updatedAt |-> 0]

LocationEvent(d, position, timestamp, city) ==
  [driverId |-> d, position |-> position, timestamp |-> timestamp, city |-> city]

\* if (!driverId || !latitude || !longitude || !city)
MissingFields(event) == event.city = ""

ConditionExpressionNotOlder(stored, timestamp) ==
  ~stored.present \/ stored.timestamp <= timestamp

\* attribute_not_exists(driverId) OR #ts < :newTimestamp
ConditionExpression(stored, timestamp) ==
  ~stored.present \/ stored.timestamp < timestamp

\* The handler on one event at time now: the table it leaves.  A missing
\* field throws before the write; a failed condition is "Stale update ignored".
handler(tbl, event, now) ==
  IF MissingFields(event) THEN tbl
  ELSE IF ConditionExpression(tbl[event.driverId], event.timestamp)
       THEN [tbl EXCEPT ![event.driverId] =
               [present |-> TRUE, timestamp |-> event.timestamp,
                position |-> event.position, updatedAt |-> now]]
       ELSE tbl

\* What the handler answers: an error for a missing field, else statusCode
\* 200 with one of the two messages.
handlerResponse(tbl, event) ==
  IF MissingFields(event) THEN "Missing required fields"
  ELSE IF ConditionExpression(tbl[event.driverId], event.timestamp)
       THEN "Location updated"
       ELSE "Stale update ignored"

\* apply: every record of the plan goes through the write path.
apply(tbl, plan, now) ==
  [d \in Drivers |->
     IF d \in plan.drivers
     THEN handler(tbl, LocationEvent(d, plan.records[d].position,
                                     plan.records[d].timestamp, "city"), now)[d]
     ELSE tbl[d]]

IdlePropagation ==
  [canonical |-> <<>>, plan |-> EmptyPlan, now |-> 0, applications |-> 0,
   ingested |-> FALSE,
   before |-> [d \in Drivers |-> NoItem], after |-> [d \in Drivers |-> NoItem]]

(* ------------------------- workflow executions ------------------------ *)
IdleExec ==
  [state |-> "Idle", status |-> "NONE", elapsed |-> 0,
   results |-> [r \in Regions |-> PendingResult(r)],
   report |-> EmptyReport, visited |-> {}, error |-> "none",
   snapshot |-> "unread", plan |-> EmptyPlan, applied |-> {}, failed |-> {},
   alerts |-> {}, reports |-> 0]

StartAt == "CompareRegions"

StartExec == [IdleExec EXCEPT !.state = StartAt, !.status = "RUNNING",
                              !.visited = {StartAt}]

Running(e) == execs[e].status = "RUNNING"

In(e, s) == Running(e) /\ execs[e].state = s

Enter(x, s) == [x EXCEPT !.state = s, !.elapsed = 0, !.visited = @ \cup {s}]

\* A Succeed state, or a state with End: true, ends the execution.
Succeed(x) == [x EXCEPT !.status = "SUCCEEDED", !.elapsed = 0]

\* The functions whose Errors metric has an alarm, and those of the workflow.
MonitoredFunctions == {"cache-updater", "graph-updater"}
WorkflowFunctions == {"drift-detector", "state-corrector"}

\* What a failed execution raises: no alarm watches the state machine, and
\* the alarms on Lambda errors watch none of the workflow's functions.
FailureAlerts ==
  IF WorkflowFunctions \cap MonitoredFunctions # {} THEN {"high"} ELSE {}

\* No state of the definition has a Catch or a Retry.
FailExecutionCaught(x, err) ==
  [Enter(x, "Success") EXCEPT !.status = "SUCCEEDED", !.error = err]

FailExecution(x, err) ==
  [x EXCEPT !.status = "FAILED", !.error = err, !.elapsed = 0,
            !.alerts = @ \cup FailureAlerts]

StateTimeout(s) ==
  CASE s = "CompareRegions" -> CheckRegionTimeoutSeconds
    [] s = "AnalyzeDrift" -> LambdaTimeoutSeconds
    [] s = "CorrectDrift" -> CorrectDriftTimeoutSeconds
    [] s = "VerifyCorrection" -> LambdaTimeoutSeconds
    [] OTHER -> 0

ChoiceNextAlways(report) == "CorrectDrift"

ChoiceNextRetry(report) ==
  IF driftDetected(report) THEN "CorrectDrift" ELSE "AnalyzeDrift"

ChoiceNext(report) ==
  IF driftDetected(report) THEN "CorrectDrift" ELSE "Success"

AnalyzerAlerts(report) ==
  IF report.zeroConfidence \/ report.severity = "Minor" THEN {"low"} ELSE {}

FreeSlots == {e \in Executions : ~Running(e)}

(* ------------------------------- actions ------------------------------ *)
\* The caches a run starts from: consistent, one region in the middle of the
\* region list drifted, or the last region drifted.
InitialCaches ==
  {c \in [Regions -> [WorkflowDrivers -> CachePositions]] :
     \E D \in {{}, {2}, {NumRegions}} :
        \A r \in Regions, d \in WorkflowDrivers :
           c[r][d] = IF r \in D THEN DriftedPos ELSE CanonicalPos}

Init ==
  /\ caches \in InitialCaches
  /\ timer = 0
  /\ execs = [e \in Executions |-> IdleExec]
  /\ input = <<>>
  /\ result = EmptyReport
  /\ table = <<>>
  /\ propagation = <<>>
  /\ stream = <<>>
  /\ updater = <<>>
  /\ response = <<>>

\* The time left until the next event: the next trigger of the rule or the
\* timeout of a state of a running execution.
TimeToNextEvent ==
  LET waits == {timer} \cup
               {StateTimeout(execs[e].state) - execs[e].elapsed :
                  e \in {f \in Executions : Running(f)}}
  IN  CHOOSE w \in waits : \A v \in waits : w <= v

\* Time passes up to the next event.  It cannot pass a deadline or a trigger.
\* The record of a finished execution is kept until time passes.
Tick ==
  /\ TimeToNextEvent > 0
  /\ timer' = timer - TimeToNextEvent
  /\ execs' = [e \in Executions |->
                 IF Running(e) THEN [execs[e] EXCEPT !.elapsed = @ + TimeToNextEvent]
                 ELSE IdleExec]
  /\ UNCHANGED <<caches, input, result, table, propagation, stream, updater, response>>

\* consistency-check-rule fires: the target starts an execution.
Trigger ==
  /\ timer = 0
  /\ FreeSlots # {}
  /\ LET slot == CHOOSE e \in FreeSlots : \A f \in FreeSlots : e <= f
     IN  execs' = [e \in Executions |->
                     IF e = slot THEN StartExec
                     ELSE IF Running(e) THEN execs[e] ELSE IdleExec]
  /\ timer' = RatePeriodSeconds
  /\ UNCHANGED <<caches, input, result, table, propagation, stream, updater, response>>

ParallelDone(results) == \A r \in Regions : results[r].status # "pending"

\* A CheckRegion branch returns: the region's samples, or a snapshot with
\* fetchError when the detector could not read the region's cache.
CheckRegionReturn(e, r, ok) ==
  /\ In(e, "CompareRegions")
  /\ execs[e].results[r].status = "pending"
  /\ LET snap == IF ok THEN OkSnapshot(r, caches[r]) ELSE FetchErrorSnapshot(r)
         res == [execs[e].results EXCEPT ![r] = snap]
         x == [execs[e] EXCEPT !.results = res]
     IN  execs' = [execs EXCEPT ![e] =
                     IF ParallelDone(res) THEN Enter(x, "AnalyzeDrift") ELSE x]
  /\ UNCHANGED <<caches, timer, input, result, table, propagation, stream, updater, response>>

\* The invocation of a CheckRegion branch fails: the Parallel state fails.
CheckRegionFail(e, r) ==
  /\ In(e, "CompareRegions")
  /\ execs[e].results[r].status = "pending"
  /\ execs' = [execs EXCEPT ![e] = FailExecution(@, "States.TaskFailed")]
  /\ UNCHANGED <<caches, timer, input, result, table, propagation, stream, updater, response>>

\* TimeoutSeconds of the CheckRegion tasks: a branch that has not returned.
CheckRegionTimeout(e) ==
  /\ In(e, "CompareRegions")
  /\ execs[e].elapsed >= StateTimeout("CompareRegions")
  /\ \E r \in Regions : execs[e].results[r].status = "pending"
  /\ execs' = [execs EXCEPT ![e] = FailExecution(@, "States.Timeout")]
  /\ UNCHANGED <<caches, timer, input, result, table, propagation, stream, updater, response>>

\* drift-detector returns the report; it replaces the state's input.
AnalyzeDriftReturn(e) ==
  /\ In(e, "AnalyzeDrift")
  /\ LET report == analyze(execs[e].results)
     IN  execs' = [execs EXCEPT ![e] =
                     [Enter(@, "DriftDetected?") EXCEPT
                        !.results = IdleExec.results, !.report = report,
                        !.reports = IF @ < 2 THEN @ + 1 ELSE @,
                        !.alerts = @ \cup AnalyzerAlerts(report)]]
  /\ UNCHANGED <<caches, timer, input, result, table, propagation, stream, updater, response>>

AnalyzeDriftFail(e) ==
  /\ In(e, "AnalyzeDrift")
  /\ execs' = [execs EXCEPT ![e] = FailExecution(@, "States.TaskFailed")]
  /\ UNCHANGED <<caches, timer, input, result, table, propagation, stream, updater, response>>

\* AnalyzeDrift has no TimeoutSeconds: the function's own timeout ends it.
AnalyzeDriftTimeout(e) ==
  /\ In(e, "AnalyzeDrift")
  /\ execs[e].elapsed >= StateTimeout("AnalyzeDrift")
  /\ execs' = [execs EXCEPT ![e] = FailExecution(@, "Lambda.Timeout")]
  /\ UNCHANGED <<caches, timer, input, result, table, propagation, stream, updater, response>>

DriftDetectedChoice(e) ==
  /\ In(e, "DriftDetected?")
  /\ LET next == ChoiceNext(execs[e].report)
     IN  execs' = [execs EXCEPT ![e] =
                     IF next = "Success" THEN Succeed(Enter(@, next))
                     ELSE Enter(@, next)]
  /\ UNCHANGED <<caches, timer, input, result, table, propagation, stream, updater, response>>

\* state-corrector reads the canonical snapshot and builds the plan.
CorrectorLoadSnapshot(e, found, ageSeconds) ==
  /\ In(e, "CorrectDrift")
  /\ execs[e].snapshot = "unread"
  /\ execs' = [execs EXCEPT ![e] =
                 IF SnapshotUnavailable(found, ageSeconds)
                 THEN FailExecution([@ EXCEPT !.snapshot = "unavailable"],
                                    "SnapshotUnavailable")
                 ELSE [@ EXCEPT !.snapshot = "fresh",
                                !.plan = buildPlan(execs[e].report, canonicalState)]]
  /\ UNCHANGED <<caches, timer, input, result, table, propagation, stream, updater, response>>

\* state-corrector republishes one record of the plan.
CorrectorPublish(e, d, ack) ==
  /\ In(e, "CorrectDrift")
  /\ execs[e].plan.present
  /\ d \in execs[e].plan.drivers \ (execs[e].applied \cup execs[e].failed)
  /\ IF ack
     THEN /\ caches' = Publish(caches, execs[e].plan, d, canonicalState)
          /\ execs' = [execs EXCEPT ![e].applied = @ \cup {d}]
     ELSE /\ caches' = caches
          /\ execs' = [execs EXCEPT ![e].failed = @ \cup {d}]
  /\ UNCHANGED <<timer, input, result, table, propagation, stream, updater, response>>

\* state-corrector returns its outcome; CorrectDrift has End: true.
CorrectDriftReturn(e) ==
  /\ In(e, "CorrectDrift")
  /\ execs[e].plan.present
  /\ execs[e].applied \cup execs[e].failed = execs[e].plan.drivers
  /\ execs' = [execs EXCEPT ![e] = Succeed(@)]
  /\ UNCHANGED <<caches, timer, input, result, table, propagation, stream, updater, response>>

CorrectDriftFail(e) ==
  /\ In(e, "CorrectDrift")
  /\ execs' = [execs EXCEPT ![e] = FailExecution(@, "States.TaskFailed")]
  /\ UNCHANGED <<caches, timer, input, result, table, propagation, stream, updater, response>>

CorrectDriftTimeout(e) ==
  /\ In(e, "CorrectDrift")
  /\ execs[e].elapsed >= StateTimeout("CorrectDrift")
  /\ execs' = [execs EXCEPT ![e] = FailExecution(@, "States.Timeout")]
  /\ UNCHANGED <<caches, timer, input, result, table, propagation, stream, updater, response>>

Next ==
  \/ Tick
  \/ Trigger
  \/ \E e \in Executions, r \in Regions, ok \in BOOLEAN : CheckRegionReturn(e, r, ok)
  \/ \E e \in Executions, r \in Regions : CheckRegionFail(e, r)
  \/ \E e \in Executions : CheckRegionTimeout(e)
  \/ \E e \in Executions : AnalyzeDriftReturn(e)
  \/ \E e \in Executions : AnalyzeDriftFail(e)
  \/ \E e \in Executions : AnalyzeDriftTimeout(e)
  \/ \E e \in Executions : DriftDetectedChoice(e)
  \/ \E e \in Executions, found \in BOOLEAN, age \in SnapshotAges :
        CorrectorLoadSnapshot(e, found, age)
  \/ \E e \in Executions, d \in WorkflowDrivers, ack \in BOOLEAN : CorrectorPublish(e, d, ack)
  \/ \E e \in Executions : CorrectDriftReturn(e)
  \/ \E e \in Executions : CorrectDriftFail(e)
  \/ \E e \in Executions : CorrectDriftTimeout(e)

Spec == Init /\ [][Next]_vars

\* The Step Functions service takes the transitions and enforces the
\* timeouts, the Lambda service ends a function at its timeout, the rule
\* fires on schedule; no function is ever obliged to answer.
Fairness ==
  /\ WF_vars(Tick)
  /\ WF_vars(Trigger)
  /\ WF_vars(\E e \in Executions : CheckRegionTimeout(e))
  /\ WF_vars(\E e \in Executions : AnalyzeDriftTimeout(e))
  /\ WF_vars(\E e \in Executions : DriftDetectedChoice(e))
  /\ WF_vars(\E e \in Executions : CorrectDriftTimeout(e))

FairSpec == Spec /\ Fairness

\* How a finished execution reads as a cycle outcome.
Outcome(e) ==
  CASE execs[e].status = "FAILED" -> "Escalated"
    [] execs[e].status = "SUCCEEDED" /\ execs[e].state = "CorrectDrift" -> "Resolved"
    [] execs[e].status = "SUCCEEDED" /\ execs[e].state = "Success"
         /\ "VerifyCorrection" \in execs[e].visited -> "Resolved"
    [] execs[e].status = "SUCCEEDED" /\ execs[e].state = "Success"
         /\ "VerifyCorrection" \notin execs[e].visited
         /\ execs[e].report.severity = "Minor" -> "MinorDrift"
    [] execs[e].status = "SUCCEEDED" /\ execs[e].state = "Success"
         /\ "VerifyCorrection" \notin execs[e].visited
         /\ execs[e].report.severity = "None" -> "NoDrift"
    [] OTHER -> "none"

(* ------------------- the drift analysis on its own -------------------- *)
InitAnalyze ==
  /\ caches = [r \in Regions |-> canonicalState]
  /\ timer = 0
  /\ execs = [e \in Executions |-> IdleExec]
  /\ input \in SnapshotInputs
  /\ result = EmptyReport
  /\ table = <<>>
  /\ propagation = <<>>
  /\ stream = <<>>
  /\ updater = <<>>
  /\ response = <<>>

AnalyzeInput ==
  /\ ~result.present
  /\ result' = analyze(input)
  /\ UNCHANGED <<caches, timer, execs, input, table, propagation, stream, updater, response>>

NextAnalyze == AnalyzeInput

SpecAnalyze == InitAnalyze /\ [][NextAnalyze]_vars

(* ------------------ the corrector and the write path ------------------ *)
StoredItems ==
  {NoItem} \cup
  {[present |-> TRUE, timestamp |-> t, position |-> p, updatedAt |-> 0] :
     t \in Timestamps \ {2}, p \in CachePositions}

\* The canonical snapshots: some of the drivers, each with one sample.
CanonicalInputs ==
  UNION {[S -> {[position |-> CanonicalPos, timestamp |-> 2]}] : S \in SUBSET Drivers}

\* The reports the plan is built from: every region answered, or the first
\* one was unavailable.
ReportInputs ==
  {analyze([r \in Regions |-> IF r \in F THEN FetchErrorSnapshot(r)
                                          ELSE OkSnapshot(r, c[r])]) :
     c \in InitialCaches, F \in {{}, {1}}}

InitPropagate ==
  /\ caches = [r \in Regions |-> canonicalState]
  /\ timer = 0
  /\ execs = [e \in Executions |-> IdleExec]
  /\ input = <<>>
  /\ result \in ReportInputs
  /\ table \in [Drivers -> StoredItems]
  /\ \E c \in CanonicalInputs : propagation = [IdlePropagation EXCEPT !.canonical = c]
  /\ stream = <<>>
  /\ updater = <<>>
  /\ response = <<>>

BuildPlanInput ==
  /\ ~propagation.plan.present
  /\ propagation' = [propagation EXCEPT
                       !.plan = buildPlan(result, propagation.canonical)]
  /\ UNCHANGED <<caches, timer, execs, input, result, table, stream, updater, response>>

ApplyPlan ==
  /\ propagation.plan.present
  /\ propagation.applications < 2
  /\ table' = apply(table, propagation.plan, propagation.now + 1)
  /\ propagation' = [propagation EXCEPT !.applications = @ + 1, !.now = @ + 1,
                                        !.before = table, !.after = table']
  /\ UNCHANGED <<caches, timer, execs, input, result, stream, updater, response>>

\* A location update of the ingestion path arrives at the same handler.
IngestWrite(d, position, timestamp, city) ==
  /\ ~propagation.ingested
  /\ table' = handler(table, LocationEvent(d, position, timestamp, city),
                      propagation.now + 1)
  /\ propagation' = [propagation EXCEPT !.ingested = TRUE, !.now = @ + 1]
  /\ UNCHANGED <<caches, timer, execs, input, result, stream, updater, response>>

NextPropagate ==
  \/ BuildPlanInput
  \/ ApplyPlan
  \/ \E d \in Drivers, p \in CachePositions, t \in Timestamps, c \in {"city", ""} :
        IngestWrite(d, p, t, c)

SpecPropagate == InitPropagate /\ [][NextPropagate]_vars

(* ------------- apply with concurrent Propagator calls ----------------- *)
\* A cycle-scoped counter is updated atomically: the update adds to the
\* value the counter has now, not to the value the call read when it began.
incrementFromRead(counter, read) == read + 1

increment(counter, read) == counter + 1

CallStates == {"pending", "inflight", "acked", "failed", "cancelled"}

\* apply starts with the plan built from a report and a canonical snapshot;
\* no Propagator call is out and the counters of the cycle are at zero.
InitApply ==
  /\ caches = [r \in Regions |-> canonicalState]
  /\ timer = 0
  /\ execs = [e \in Executions |-> IdleExec]
  /\ input = <<>>
  /\ result \in ReportInputs
  /\ table = <<>>
  /\ \E c \in CanonicalInputs :
        propagation = [plan |-> buildPlan(result, c),
                       calls |-> [d \in DOMAIN c |-> "pending"],
                       read |-> [d \in DOMAIN c |-> [published |-> 0, errors |-> 0]],
                       applied |-> 0, failed |-> <<>>,
                       published |-> 0, errors |-> 0, returned |-> FALSE]
  /\ stream = <<>>
  /\ updater = <<>>
  /\ response = <<>>

\* The call for one record goes out; it reads the counters it will update.
PropagatorCall(d) ==
  /\ ~propagation.returned
  /\ d \in propagation.plan.drivers
  /\ propagation.calls[d] = "pending"
  /\ propagation' = [propagation EXCEPT
                       !.calls[d] = "inflight",
                       !.read[d] = [published |-> propagation.published,
                                    errors |-> propagation.errors]]
  /\ UNCHANGED <<caches, timer, execs, input, result, table, stream, updater, response>>

\* The call comes back, acknowledged or failed.
PropagatorDone(d, ack) ==
  /\ ~propagation.returned
  /\ d \in propagation.plan.drivers
  /\ propagation.calls[d] = "inflight"
  /\ propagation' =
       IF ack
       THEN [propagation EXCEPT
               !.calls[d] = "acked",
               !.applied = @ + 1,
               !.published = increment(@, propagation.read[d].published)]
       ELSE [propagation EXCEPT
               !.calls[d] = "failed",
               !.failed = Append(@, d),
               !.errors = increment(@, propagation.read[d].errors)]
  /\ UNCHANGED <<caches, timer, execs, input, result, table, stream, updater, response>>

\* The deadline of the phase cancels the calls still out: their records
\* count as failed.
CorrectingDeadline(d) ==
  /\ ~propagation.returned
  /\ d \in propagation.plan.drivers
  /\ propagation.calls[d] \in {"pending", "inflight"}
  /\ propagation' = [propagation EXCEPT
                       !.calls[d] = "cancelled",
                       !.failed = Append(@, d),
                       !.errors = increment(@, propagation.read[d].errors)]
  /\ UNCHANGED <<caches, timer, execs, input, result, table, stream, updater, response>>

\* apply returns its outcome when every record has one.
ApplyReturn ==
  /\ ~propagation.returned
  /\ \A d \in DOMAIN propagation.calls :
        propagation.calls[d] \in CallStates \ {"pending", "inflight"}
  /\ propagation' = [propagation EXCEPT !.returned = TRUE]
  /\ UNCHANGED <<caches, timer, execs, input, result, table, stream, updater, response>>

NextApply ==
  \/ \E d \in Drivers : PropagatorCall(d)
  \/ \E d \in Drivers, ack \in BOOLEAN : PropagatorDone(d, ack)
  \/ \E d \in Drivers : CorrectingDeadline(d)
  \/ ApplyReturn

SpecApply == InitApply /\ [][NextApply]_vars

(* ------------------ the write path and the cache updater -------------- *)
ParallelizationFactor == 10

MaxWrites == Cardinality(Timestamps)

\* The updates that arrive: complete ones, and per driver one with a field
\* missing.
IngestEvents ==
  {LocationEvent(d, p, t, "city") :
     d \in Drivers, p \in CachePositions, t \in Timestamps}
    \cup {LocationEvent(d, CanonicalPos, Cardinality(Timestamps), "") : d \in Drivers}

\* The concurrent batch that gets the i-th record of the table's stream: the
\* records of one partition key (driverId) go to the same one.
LaneBySequence(d, i) == i % ParallelizationFactor

Lane(d, i) == d % ParallelizationFactor

Lanes == 0..(ParallelizationFactor - 1)

\* The records of a lane that are not yet processed, in stream order.
RECURSIVE PendingOf(_, _, _, _)
PendingOf(records, processed, l, i) ==
  IF i > Len(records) THEN <<>>
  ELSE IF i \notin processed /\ Lane(records[i].driverId, i) = l
       THEN <<i>> \o PendingOf(records, processed, l, i + 1)
       ELSE PendingOf(records, processed, l, i + 1)

\* The handler of cache-updater on a batch: pipeline.geoadd per record, in
\* the order of event.Records.
RECURSIVE geoaddAll(_, _, _)
geoaddAll(cache, records, batch) ==
  IF batch = <<>> THEN cache
  ELSE LET rec == records[Head(batch)]
       IN  geoaddAll([cache EXCEPT ![rec.driverId] =
                        [present |-> TRUE, timestamp |-> rec.timestamp,
                         position |-> rec.position]],
                     records, Tail(batch))

NoCacheEntry == [present |-> FALSE, timestamp |-> 0, position |-> 0]

InitStream ==
  /\ caches = [r \in Regions |-> canonicalState]
  /\ timer = 0
  /\ execs = [e \in Executions |-> IdleExec]
  /\ input = <<>>
  /\ result = EmptyReport
  /\ table = [d \in Drivers |-> NoItem]
  /\ propagation = <<>>
  /\ stream = [records |-> <<>>, writes |-> 0]
  /\ updater = [processed |-> {}, retry |-> [l \in Lanes |-> 0],
                cache |-> [d \in Drivers |-> NoCacheEntry],
                kinesisRecords |-> <<>>]
  /\ response = <<>>

\* location-processor handles one update; an accepted write appears in the
\* table's stream.
LocationUpdate(event) ==
  /\ stream.writes < MaxWrites
  /\ table' = handler(table, event, stream.writes + 1)
  /\ response' = [event |-> event, stored |-> table[event.driverId],
                  message |-> handlerResponse(table, event),
                  item |-> table'[event.driverId]]
  /\ stream' = [writes |-> stream.writes + 1,
                records |-> IF table' # table
                            THEN Append(stream.records,
                                        [driverId |-> event.driverId,
                                         timestamp |-> event.timestamp,
                                         position |-> event.position])
                            ELSE stream.records]
  /\ UNCHANGED <<caches, timer, execs, input, result, propagation, updater>>

\* cache-updater gets the next k records of a lane.  When putRecords fails
\* after pipeline.exec, the cache is written and the same batch comes again.
ProcessBatch(l, k, ok) ==
  LET pending == PendingOf(stream.records, updater.processed, l, 1)
      batch == SubSeq(pending, 1, k)
  IN  /\ k <= Len(pending)
      /\ updater.retry[l] \in {0, k}
      /\ updater' =
           [updater EXCEPT
              !.cache = geoaddAll(@, stream.records, batch),
              !.processed = IF ok THEN @ \cup {batch[i] : i \in 1..k} ELSE @,
              !.retry[l] = IF ok THEN 0 ELSE k,
              !.kinesisRecords =
                 IF ok THEN @ \o [i \in 1..k |-> stream.records[batch[i]]] ELSE @]
      /\ UNCHANGED <<caches, timer, execs, input, result, table, propagation,
                     stream, response>>

\* maximumRecordAgeInSeconds: the oldest record of a lane is given up.
ExpireRecord(l) ==
  LET pending == PendingOf(stream.records, updater.processed, l, 1)
  IN  /\ pending # <<>>
      /\ updater' = [updater EXCEPT
                       !.processed = @ \cup {Head(pending)},
                       !.retry[l] = IF @ > 0 THEN @ - 1 ELSE 0]
      /\ UNCHANGED <<caches, timer, execs, input, result, table, propagation,
                     stream, response>>

NextStream ==
  \/ \E event \in IngestEvents : LocationUpdate(event)
  \/ \E l \in Lanes, k \in {1, 2}, ok \in BOOLEAN : ProcessBatch(l, k, ok)
  \/ \E l \in Lanes : ExpireRecord(l)

SpecStream == InitStream /\ [][NextStream]_vars

(* ------------- the verification of the documented workflow ----------- *)
\* The documented definition goes from TriggerCorrection to VerifyCorrection
\* and from there to Success.
DocumentedStates ==
  {"FetchRegionStates", "CompareDrift", "CheckThreshold", "TriggerCorrection",
   "VerifyCorrection"}

VerifyResourceCorrector == "corrector"

VerifyResource == "drift-detector"

RECURSIVE SortedSeq(_)
SortedSeq(S) ==
  IF S = {} THEN <<>>
  ELSE LET m == CHOOSE x \in S : \A y \in S : x <= y
       IN  <<m>> \o SortedSeq(S \ {m})

\* verify: the analysis of the re-sampled target regions.
verify(results, plan) ==
  LET order == SortedSeq(plan.targetRegions)
  IN  analyze([i \in 1..Len(order) |-> results[order[i]]])

PublishAll(c, plan, canonical) ==
  [r \in Regions |->
     IF r \in plan.targetRegions
     THEN [d \in DOMAIN c[r] |-> IF d \in plan.drivers THEN canonical[d] ELSE c[r][d]]
     ELSE c[r]]

MajorReports == {rep \in ReportInputs : rep.severity = "Major"}

\* An execution that enters VerifyCorrection: the corrector has returned, each
\* record of its plan applied or failed.
VerifyingExecs ==
  {[IdleExec EXCEPT !.state = "VerifyCorrection", !.status = "RUNNING",
                    !.visited = DocumentedStates, !.report = rep, !.reports = 1,
                    !.snapshot = "fresh", !.plan = buildPlan(rep, canonicalState),
                    !.applied = A, !.failed = WorkflowDrivers \ A] :
     rep \in MajorReports, A \in SUBSET WorkflowDrivers}

InitVerify ==
  /\ caches \in [Regions -> [WorkflowDrivers -> CachePositions]]
  /\ timer = RatePeriodSeconds
  /\ \E x \in VerifyingExecs :
        execs = [e \in Executions |-> IF e = 1 THEN x ELSE IdleExec]
  /\ input = <<>>
  /\ result = EmptyReport
  /\ table = <<>>
  /\ propagation = <<>>
  /\ stream = <<>>
  /\ updater = <<>>
  /\ response = <<>>

\* The verifier re-samples one target region for the drivers of the plan.
VerifySample(e, r, ok) ==
  /\ In(e, "VerifyCorrection")
  /\ r \in execs[e].plan.targetRegions
  /\ execs[e].results[r].status = "pending"
  /\ LET samples == [d \in execs[e].plan.drivers |-> caches[r][d]]
         snap == IF ok THEN OkSnapshot(r, samples) ELSE FetchErrorSnapshot(r)
     IN  execs' = [execs EXCEPT ![e].results[r] = snap]
  /\ UNCHANGED <<caches, timer, input, result, table, propagation, stream, updater, response>>

\* The task returns; its Next is Success.
VerifyCorrectionReturn(e) ==
  /\ In(e, "VerifyCorrection")
  /\ \A r \in execs[e].plan.targetRegions : execs[e].results[r].status # "pending"
  /\ IF VerifyResource = "drift-detector"
     THEN /\ execs' = [execs EXCEPT ![e] =
                         Succeed(Enter([@ EXCEPT !.report =
                                          verify(execs[e].results, execs[e].plan)],
                                       "Success"))]
          /\ caches' = caches
     ELSE /\ execs' = [execs EXCEPT ![e] = Succeed(Enter(@, "Success"))]
          /\ caches' = PublishAll(caches, execs[e].plan, canonicalState)
  /\ UNCHANGED <<timer, input, result, table, propagation, stream, updater, response>>

VerifyCorrectionFail(e) ==
  /\ In(e, "VerifyCorrection")
  /\ execs' = [execs EXCEPT ![e] = FailExecution(@, "States.TaskFailed")]
  /\ UNCHANGED <<caches, timer, input, result, table, propagation, stream, updater, response>>

\* VerifyCorrection has no TimeoutSeconds: the function's timeout ends it.
VerifyCorrectionTimeout(e) ==
  /\ In(e, "VerifyCorrection")
  /\ execs[e].elapsed >= StateTimeout("VerifyCorrection")
  /\ execs' = [execs EXCEPT ![e] = FailExecution(@, "Lambda.Timeout")]
  /\ UNCHANGED <<caches, timer, input, result, table, propagation, stream, updater, response>>

NextVerify ==
  \/ Tick
  \/ \E e \in Executions, r \in Regions, ok \in BOOLEAN : VerifySample(e, r, ok)
  \/ \E e \in Executions : VerifyCorrectionReturn(e)
  \/ \E e \in Executions : VerifyCorrectionFail(e)
  \/ \E e \in Executions : VerifyCorrectionTimeout(e)

SpecVerify == InitVerify /\ [][NextVerify]_vars

(* ------------------------------- claims ------------------------------- *)
CorrectorRan(e) ==
  \/ "CorrectDrift" \in execs[e].visited
  \/ execs[e].snapshot # "unread"
  \/ execs[e].plan.present
  \/ execs[e].applied \cup execs[e].failed # {}

C2_NoOverlap == Cardinality({e \in Executions : Running(e)}) <= 1

\* The drift that is left in the regions a plan targeted.
RemainingDrift(e) ==
  \E d \in execs[e].plan.drivers, r1, r2 \in execs[e].plan.targetRegions :
     isDrift(haversineDistance(caches[r1][d], caches[r2][d]))

\* C3: a cycle that applied a correction reports success only after a
\* verification step, and only when no drift is left in the plan's scope.
C3_ResolvedOnlyVerified ==
  \A e \in Executions :
    (Outcome(e) = "Resolved")
      => "VerifyCorrection" \in execs[e].visited /\ ~RemainingDrift(e)

\* C4: when the canonical snapshot is missing or older than twice the cycle
\* interval, the cycle fails with SnapshotUnavailable: nothing is published
\* and no verification is entered.
C4_SnapshotUnavailableEscalates ==
  \A e \in Executions :
    execs[e].snapshot = "unavailable"
      => /\ Outcome(e) = "Escalated"
         /\ execs[e].error = "SnapshotUnavailable"
         /\ ~execs[e].plan.present
         /\ execs[e].applied \cup execs[e].failed = {}
         /\ "VerifyCorrection" \notin execs[e].visited

C4_Witness ==
  \E e \in Executions :
    /\ execs[e].snapshot = "unavailable"
    /\ execs[e].report.severity = "Major"
    /\ execs[e].status = "FAILED"

ReturnedOk(e) == {r \in Regions : execs[e].results[r].status = "ok"}

\* C5: a region call that fails or times out while at least two regions
\* return never ends the cycle in CompareRegions; the analysis still runs.
C5_FetchFailureTolerated ==
  \A e \in Executions :
    (Cardinality(ReturnedOk(e)) >= 2 /\ execs[e].state = "CompareRegions")
      => execs[e].status # "FAILED"

\* C6: every cycle that starts reaches NoDrift, MinorDrift, Resolved or
\* Escalated whatever the functions do, and a due trigger always finds the
\* scheduler able to start a cycle.
C6_EveryCycleEnds ==
  /\ \A e \in Executions : []<>(~Running(e))
  /\ [](\A e \in Executions :
          execs[e].status \in {"SUCCEEDED", "FAILED"}
            => Outcome(e) \in {"NoDrift", "MinorDrift", "Resolved", "Escalated"})
  /\ [](timer = 0 => FreeSlots # {})
  /\ []<>(timer = 0)

C6_Witness ==
  \E e \in Executions :
    /\ execs[e].status = "FAILED"
    /\ execs[e].error = "Lambda.Timeout"

TypeOK ==
  /\ timer \in 0..RatePeriodSeconds
  /\ \A e \in Executions : execs[e].status \in {"NONE", "RUNNING", "SUCCEEDED", "FAILED"}

(* --------------------- claims on the drift analysis ------------------- *)
UsableRegions(snapshots) ==
  {r \in DOMAIN snapshots : snapshots[r].status = "ok"}

\* The regions that are more than 100 m from some other usable region for d.
DisagreeingRegions(snapshots, d) ==
  {r \in UsableRegions(snapshots) :
     \E q \in UsableRegions(snapshots) :
        isDrift(haversineDistance(snapshots[r].samples[d], snapshots[q].samples[d]))}

\* r is more than 100 m from every other usable region for d.
Outlier(snapshots, d, r) ==
  /\ r \in UsableRegions(snapshots)
  /\ \A q \in UsableRegions(snapshots) \ {r} :
        isDrift(haversineDistance(snapshots[r].samples[d], snapshots[q].samples[d]))

\* C7: severity is None without drifted drivers, Minor with at most two
\* affected regions, Major with three or more; three or more regions that
\* disagree by more than 100 m on one driver make the report Major.
C7_SeverityByRegions ==
  (result.present /\ ~result.zeroConfidence)
    => /\ (result.driftedDriverCount = 0) => result.severity = "None"
       /\ (result.driftedDriverCount > 0 /\ Cardinality(result.affectedRegions) <= 2)
            => result.severity = "Minor"
       /\ Cardinality(result.affectedRegions) >= 3 => result.severity = "Major"
       /\ (\E d \in Drivers : Cardinality(DisagreeingRegions(input, d)) >= 3)
            => result.severity = "Major"

\* C8: when exactly one region places a driver more than 100 m from all the
\* others, affectedRegions has as many regions as disagree, and with fewer
\* than three of them the severity is Minor.
C8_SingleOutlier ==
  (/\ result.present
   /\ Cardinality(UsableRegions(input)) >= 2
   /\ \E d \in Drivers :
        /\ Cardinality({r \in Regions : Outlier(input, d, r)}) = 1
        /\ \A o \in Drivers \ {d} : DisagreeingRegions(input, o) = {})
    => LET disagreeing == UNION {DisagreeingRegions(input, d) : d \in Drivers}
       IN  /\ Cardinality(result.affectedRegions) = Cardinality(disagreeing)
           /\ Cardinality(disagreeing) < 3 => result.severity = "Minor"

IdenticalSamples(snapshots) ==
  \A r, q \in UsableRegions(snapshots) : snapshots[r].samples = snapshots[q].samples

\* C9: when all usable regions report the same position for every sampled
\* driver, the report has severity None, no drifted driver and no affected
\* region.
C9_IdenticalIsNone ==
  (result.present /\ IdenticalSamples(input))
    => /\ result.severity = "None"
       /\ result.driftedDriverCount = 0
       /\ result.affectedRegions = {}

C9_Witness ==
  /\ result.present
  /\ IdenticalSamples(input)
  /\ UsableRegions(input) = Regions
  /\ ~result.zeroConfidence

SingleOutlierCaches(d) ==
  \E r \in Regions :
     /\ \A q \in Regions \ {r} : isDrift(haversineDistance(caches[r][d], caches[q][d]))
     /\ \A q1, q2 \in Regions \ {r} : caches[q1][d] = caches[q2][d]

Terminal(e) == execs[e].status \in {"SUCCEEDED", "FAILED"}

\* C13: when all regions answer and one of them holds a driver more than
\* 100 m from the others, the report is Major with every region affected;
\* and a cycle with such a report, a fresh snapshot and every record
\* published ends Resolved after a verification that finds the target
\* regions within 100 m of each other.
C13_EndToEnd ==
  \A e \in Executions :
    /\ (/\ execs[e].report.present
        /\ execs[e].report.unavailable = {}
        /\ \E d \in WorkflowDrivers : SingleOutlierCaches(d))
         => /\ execs[e].report.severity = "Major"
            /\ execs[e].report.affectedRegions = Regions
    /\ (/\ execs[e].report.severity = "Major"
        /\ execs[e].report.affectedRegions = Regions
        /\ execs[e].snapshot = "fresh"
        /\ execs[e].applied = execs[e].plan.drivers
        /\ execs[e].status = "SUCCEEDED")
         => /\ "VerifyCorrection" \in execs[e].visited
            /\ ~RemainingDrift(e)
            /\ Outcome(e) = "Resolved"

\* C14: the analysis starts only when every region call has returned or the
\* deadline of CompareRegions has passed, the cycle never stays in
\* CompareRegions beyond the deadline, and a region that has not answered by
\* the deadline does not end the cycle there: the analysis starts without it.
C14_BoundedFanIn ==
  \A e \in Executions :
    /\ In(e, "AnalyzeDrift")
         => \A r \in Regions : execs[e].results[r].status \in {"ok", "fetchError"}
    /\ In(e, "CompareRegions") => execs[e].elapsed <= CheckRegionTimeoutSeconds
    /\ execs[e].state = "CompareRegions" => execs[e].error # "States.Timeout"

\* The order of the states of the definition.
Rank(s) ==
  CASE s = "Idle" -> 0
    [] s = "CompareRegions" -> 1
    [] s = "AnalyzeDrift" -> 2
    [] s = "DriftDetected?" -> 3
    [] s = "CorrectDrift" -> 4
    [] s = "Success" -> 5
    [] OTHER -> 6

\* C15: a running cycle only moves forward through the states, so that no
\* state is entered twice, and a failed cycle stays failed until its slot is
\* cleared or a new cycle starts in it.
C15_StrictlyLinear ==
  [][\A e \in Executions :
       /\ (Running(e) /\ execs'[e].state # execs[e].state
              /\ execs'[e].status # "NONE")
            => Rank(execs'[e].state) > Rank(execs[e].state)
       /\ (Running(e) /\ execs'[e].state = execs[e].state)
            => execs'[e].visited = execs[e].visited
       /\ Terminal(e)
            => \/ execs'[e] = execs[e]
               \/ execs'[e] = IdleExec
               \/ execs'[e] = StartExec]_vars

C15_Witness ==
  \E e \in Executions :
    /\ execs[e].status = "FAILED"
    /\ execs[e].visited = {"CompareRegions", "AnalyzeDrift", "DriftDetected?", "CorrectDrift"}
    /\ execs[e].failed # {}

\* C16: every cycle that has ended has produced exactly one report.
C16_OneReportPerCycle ==
  \A e \in Executions :
    /\ execs[e].reports <= 1
    /\ Terminal(e) => execs[e].reports = 1 /\ execs[e].report.present

\* C17: when some records of the plan fail to be published, the failures are
\* recorded per driver, the other records are published, and the cycle goes
\* on to the verification instead of ending.
C17_PartialFailureProceeds ==
  \A e \in Executions :
    /\ execs[e].applied \cap execs[e].failed = {}
    /\ execs[e].applied \cup execs[e].failed \subseteq execs[e].plan.drivers
    /\ (/\ execs[e].failed # {}
        /\ execs[e].applied \cup execs[e].failed = execs[e].plan.drivers
        /\ execs[e].error = "none"
        /\ ~In(e, "CorrectDrift"))
         => "VerifyCorrection" \in execs[e].visited

\* C20: every cycle that ends Escalated has raised a high-severity alert,
\* and a cycle that ends NoDrift, MinorDrift or Resolved has raised none.
C20_EscalatedAlerts ==
  \A e \in Executions :
    /\ Outcome(e) = "Escalated" => "high" \in execs[e].alerts
    /\ Outcome(e) \in {"NoDrift", "MinorDrift", "Resolved"}
         => "high" \notin execs[e].alerts

MaxPairwiseDistance(snapshots, d) ==
  Max0({haversineDistance(snapshots[r].samples[d], snapshots[q].samples[d]) :
          r \in UsableRegions(snapshots), q \in UsableRegions(snapshots)})

\* The drivers for which calculateDrift found a pair more than 100 m apart.
DriftedDrivers(snapshots) ==
  {p[1] : p \in DriftPairs(UsableSnapshots(snapshots))}

Analyzed == result.present /\ ~result.zeroConfidence

\* C23: a driver is drifted exactly when its maximum pairwise distance is
\* strictly greater than 100 m; when no driver is above 100 m the report has
\* no affected region and does not trigger a correction.
C23_DriftedIffOverThreshold ==
  Analyzed
    => /\ \A d \in Drivers :
            d \in DriftedDrivers(input)
              <=> MaxPairwiseDistance(input, d) > DriftThresholdMeters
       /\ (\A d \in Drivers : MaxPairwiseDistance(input, d) <= DriftThresholdMeters)
            => /\ result.affectedRegions = {}
               /\ ~driftDetected(result)

\* C24: driftedDriverCount counts every drifted driver once, it lies between
\* 0 and sampleSize, and driftPercentage is its share of the sample, between
\* 0 and 100.
C24_CountWithinSample ==
  Analyzed
    => /\ result.driftedDriverCount = Cardinality(DriftedDrivers(input))
       /\ result.driftedDriverCount \in 0..result.sampleSize
       /\ result.driftPercentage \in 0..100
       /\ result.driftPercentage
            = (result.driftedDriverCount * 100) \div result.sampleSize

\* C25: the drifted drivers and the maximum drift of the report are those of
\* the comparison of every pair of regional positions.
C25_AllPairs ==
  Analyzed
    => LET allPairs == {d \in Drivers :
                          MaxPairwiseDistance(input, d) > DriftThresholdMeters}
       IN  /\ DriftedDrivers(input) = allPairs
           /\ result.maxDriftMeters
                = Max0({MaxPairwiseDistance(input, d) : d \in allPairs})

\* C29: severity is None exactly when driftedDriverCount is 0 and exactly
\* when affectedRegions is empty; affectedRegions never has exactly one
\* region; maxDriftMeters is above 100 exactly when driftedDriverCount > 0.
C29_FieldsAgree ==
  result.present
    => /\ (result.severity = "None") <=> (result.driftedDriverCount = 0)
       /\ (result.driftedDriverCount = 0) <=> (result.affectedRegions = {})
       /\ Cardinality(result.affectedRegions) # 1
       /\ (result.maxDriftMeters > DriftThresholdMeters)
            <=> (result.driftedDriverCount > 0)

C29_Witness ==
  /\ Analyzed
  /\ result.severity = "Minor"
  /\ result.driftedDriverCount > 0
  /\ \E d \in Drivers : MaxPairwiseDistance(input, d) = DriftThresholdMeters

\* C30: the report of analyze is the same for every order of the region
\* snapshots.
C30_OrderIndependent ==
  result.present
    => \A f \in Permutations(Regions) :
         LET permuted == analyze([i \in Regions |-> input[f[i]]])
         IN  /\ permuted.driftedDriverCount = result.driftedDriverCount
             /\ permuted.affectedRegions = result.affectedRegions
             /\ permuted.maxDriftMeters = result.maxDriftMeters
             /\ permuted.severity = result.severity

(* ----------------------- claims on apply ------------------------------ *)
\* C27: when apply has returned, every record of the plan is accounted once:
\* applied plus the number of failed drivers is the number of records, no
\* driver is failed twice, and the counters hold every update.
C27_AccountedOnce ==
  propagation.returned
    => LET acked == {d \in propagation.plan.drivers : propagation.calls[d] = "acked"}
           failed == {d \in propagation.plan.drivers :
                        propagation.calls[d] \in {"failed", "cancelled"}}
       IN  /\ propagation.applied + Len(propagation.failed)
                = Cardinality(propagation.plan.drivers)
           /\ \A i, j \in 1..Len(propagation.failed) :
                 i # j => propagation.failed[i] # propagation.failed[j]
           /\ {propagation.failed[i] : i \in 1..Len(propagation.failed)} = failed
           /\ propagation.applied = Cardinality(acked)
           /\ propagation.published = Cardinality(acked)
           /\ propagation.errors = Cardinality(failed)

C27_Witness ==
  /\ propagation.returned
  /\ propagation.applied >= 1
  /\ Len(propagation.failed) >= 1
  /\ propagation.published + propagation.errors = NumDrivers

RECURSIVE TimestampsOf(_, _)
TimestampsOf(records, d) ==
  IF records = <<>> THEN <<>>
  ELSE IF Head(records).driverId = d
       THEN <<Head(records).timestamp>> \o TimestampsOf(Tail(records), d)
       ELSE TimestampsOf(Tail(records), d)

Increasing(ts) == \A i, j \in 1..Len(ts) : i < j => ts[i] < ts[j]

C11_ApplyIdempotent ==
  propagation.applications = 2 => propagation.after = propagation.before

C11_Witness ==
  /\ propagation.applications = 2
  /\ \E d \in propagation.plan.drivers :
        /\ table[d].timestamp = propagation.plan.records[d].timestamp
        /\ table[d].updatedAt > 0

\* C12: every record of a plan is the canonical sample of a driver of the
\* canonical snapshot; a driver missing from the snapshot is in no plan,
\* also when the report found it drifted.
C12_PlanWithinCanonical ==
  propagation.plan.present
    => /\ propagation.plan.drivers \subseteq DOMAIN propagation.canonical
       /\ DOMAIN propagation.plan.records = propagation.plan.drivers
       /\ \A d \in propagation.plan.drivers :
             propagation.plan.records[d] = propagation.canonical[d]

C12_Witness ==
  /\ propagation.plan.present
  /\ result.severity = "Major"
  /\ \E d \in WorkflowDrivers : d \notin DOMAIN propagation.canonical
  /\ propagation.plan.drivers # {}

====
